---- MODULE Spec2Model ----
(***************************************************************************)
(* A model of the RePEc paper ingestion (repec/papers.py): the per-batch   *)
(* orchestration of update / update_papers / update_papers_1, the row      *)
(* replacement of replace_paper, and the enrichment functions parsejel,    *)
(* get_year and lang_and.                                                  *)
(*                                                                         *)
(* Text is a sequence of one-character strings.  An optional value         *)
(* (Python's None or a value) is a sequence of length 0 or 1.              *)
(***************************************************************************)
EXTENDS Integers, Sequences, FiniteSets, TLC

\* ------------------------------------------------------------------------
\* Characters
\* ------------------------------------------------------------------------

UpperChars == {"A", "G", "R", "Z", "E", "N", "M", "P", "L", "T"}

LowerChars == {"a", "g", "r", "z", "e", "n", "m", "p", "l", "t"}

DigitChars == {"0", "1", "2", "3", "8", "9"}

\* The separators of parsejel's first pattern, [-., ]
SepChars == {"-", ".", ",", " "}

\* \s of the alphabet
SpaceChars == {" "}

\* str.upper() on one character
UpperOf(c) ==
    CASE c = "a" -> "A" [] c = "g" -> "G" [] c = "r" -> "R"
      [] c = "z" -> "Z" [] c = "e" -> "E" [] c = "n" -> "N"
      [] c = "m" -> "M" [] c = "p" -> "P" [] c = "l" -> "L"
      [] c = "t" -> "T"
      [] OTHER -> c

\* str.lower() on one character
LowerOf(c) ==
    CASE c = "A" -> "a" [] c = "G" -> "g" [] c = "R" -> "r"
      [] c = "Z" -> "z" [] c = "E" -> "e" [] c = "N" -> "n"
      [] c = "M" -> "m" [] c = "P" -> "p" [] c = "L" -> "l"
      [] c = "T" -> "t"
      [] OTHER -> c

DigitVal(c) ==
    CASE c = "0" -> 0 [] c = "1" -> 1 [] c = "2" -> 2 [] c = "3" -> 3
      [] c = "8" -> 8 [] c = "9" -> 9 [] OTHER -> 0

\* Code point order of the characters that reach sorted() in parsejel
CharRank(c) ==
    CASE c = "0" -> 0 [] c = "1" -> 1 [] c = "2" -> 2 [] c = "3" -> 3
      [] c = "8" -> 8 [] c = "9" -> 9 [] c = "A" -> 17 [] c = "E" -> 21
      [] c = "G" -> 23 [] c = "L" -> 28 [] c = "M" -> 29 [] c = "N" -> 30
      [] c = "P" -> 32 [] c = "R" -> 34 [] c = "T" -> 36 [] c = "Z" -> 42
      [] OTHER -> 99

Upper(s) == [i \in 1..Len(s) |-> UpperOf(s[i])]

Lower(s) == [i \in 1..Len(s) |-> LowerOf(s[i])]

\* s[:n]
Prefix(s, n) == IF Len(s) <= n THEN s ELSE SubSeq(s, 1, n)

\* Python's string order (lexicographic by code point), strict
RECURSIVE StrLess(_, _)
StrLess(a, b) ==
    IF a = <<>> THEN b # <<>>
    ELSE IF b = <<>> THEN FALSE
    ELSE IF a[1] # b[1] THEN CharRank(a[1]) < CharRank(b[1])
    ELSE StrLess(Tail(a), Tail(b))

\* sorted(set): the elements of a finite set of texts in increasing order
RECURSIVE Sorted(_)
Sorted(S) ==
    IF S = {} THEN <<>>
    ELSE LET m == CHOOSE x \in S : \A y \in S \ {x} : StrLess(x, y)
         IN  <<m>> \o Sorted(S \ {m})

Range(f) == {f[i] : i \in DOMAIN f}

\* ------------------------------------------------------------------------
\* Templates and records
\* ------------------------------------------------------------------------

\* One (field, value) pair of a template, as redif.load returns it
F(k, v) == [k |-> k, v |-> v]

\* collect(template)[f]: the values of field f in order of appearance
RECURSIVE Values(_, _)
Values(t, f) ==
    IF t = <<>> THEN <<>>
    ELSE (IF t[1].k = f THEN <<t[1].v>> ELSE <<>>) \o Values(Tail(t), f)

\* paper.get(f, [None])[0]
First(t, f) == LET vs == Values(t, f) IN IF vs = <<>> THEN <<>> ELSE <<vs[1]>>

Fields(t) == {t[i].k : i \in 1..Len(t)}

\* ------------------------------------------------------------------------
\* JEL normalization (papers.py, filterjel and parsejel)
\* ------------------------------------------------------------------------

\* filterjel falling back to the prefix without looking it up
filterjel_unchecked(jel, alljel) ==
    IF jel \in alljel THEN <<jel>> ELSE <<Prefix(jel, 2)>>

\* filterjel: the code, its 2-character prefix, or nothing
filterjel(jel, alljel) ==
    IF jel \in alljel THEN <<jel>>
    ELSE IF Prefix(jel, 2) \in alljel THEN <<Prefix(jel, 2)>>
    ELSE <<>>

\* The first index >= i of s that holds no separator (Len(s)+1 when none)
RECURSIVE SkipSeps(_, _)
SkipSeps(s, i) ==
    IF i <= Len(s) /\ s[i] \in SepChars THEN SkipSeps(s, i + 1) ELSE i

\* re.sub("([A-Z])[-., ]+([0-9])", r"\1\2", s) from index i on: leftmost,
\* non-overlapping matches, the separator run greedy
RECURSIVE CollapseFrom(_, _)
CollapseFrom(s, i) ==
    IF i > Len(s) THEN <<>>
    ELSE LET j == SkipSeps(s, i + 1)
         IN  IF /\ s[i] \in UpperChars
                /\ j > i + 1
                /\ j <= Len(s)
                /\ s[j] \in DigitChars
             THEN <<s[i], s[j]>> \o CollapseFrom(s, j + 1)
             ELSE <<s[i]>> \o CollapseFrom(s, i + 1)

JelCollapse(s) == CollapseFrom(s, 1)

\* re.split("[^A-Z0-9]+", s): the maximal runs of [A-Z0-9], cur the run being
\* read (the empty strings re.split also returns match nothing later on)
RECURSIVE SplitFrom(_, _, _)
SplitFrom(s, i, cur) ==
    IF i > Len(s) THEN (IF cur = <<>> THEN <<>> ELSE <<cur>>)
    ELSE IF s[i] \in UpperChars \cup DigitChars
         THEN SplitFrom(s, i + 1, Append(cur, s[i]))
         ELSE (IF cur = <<>> THEN <<>> ELSE <<cur>>) \o SplitFrom(s, i + 1, <<>>)

JelSplit(s) == SplitFrom(s, 1, <<>>)

\* re.match("[A-Z][0-9]+$", c)
JelTokenOk(c) ==
    /\ Len(c) >= 2
    /\ c[1] \in UpperChars
    /\ \A i \in 2..Len(c) : c[i] \in DigitChars

R00 == <<"R", "0", "0">>

Z0 == <<"Z", "0">>

\* The tokens of the raw string that pass the pattern, cut to 3 characters
JelTokens(jel) ==
    LET parts == JelSplit(Upper(JelCollapse(jel)))
    IN  {Prefix(parts[i], 3) : i \in {k \in 1..Len(parts) : JelTokenOk(parts[k])}}

\* parsejel: the sorted list of official codes of a raw classification string
parsejel(jel, alljel) ==
    LET kept == UNION {Range(filterjel(c, alljel)) : c \in JelTokens(jel)}
        res  == Sorted(kept)
    IN  IF res = <<R00, Z0>> THEN <<>> ELSE res

\* ------------------------------------------------------------------------
\* Year resolution (papers.py, parse_year and get_year)
\* ------------------------------------------------------------------------

\* re.search("(?<![0-9])[0-9]{4}", date): the start of the first run of 4 digits
\* not preceded by a digit, 0 when there is none
YearMatchAt(date) ==
    LET ok(i) == /\ \A k \in i..(i + 3) : date[k] \in DigitChars
                 /\ (i = 1 \/ date[i - 1] \notin DigitChars)
        hits  == {i \in 1..(Len(date) - 3) : ok(i)}
    IN  IF hits = {} THEN 0 ELSE CHOOSE i \in hits : \A k \in hits : i <= k

\* int(y) of a text of digits
RECURSIVE IntOf(_)
IntOf(y) ==
    IF y = <<>> THEN 0
    ELSE 10 * IntOf(SubSeq(y, 1, Len(y) - 1)) + DigitVal(y[Len(y)])

\* parse_year: the matched run as an integer, nothing for no match or "0000"
parse_year(date) ==
    LET i == YearMatchAt(date)
        y == IF i = 0 THEN <<>> ELSE SubSeq(date, i, i + 3)
    IN  IF i # 0 /\ y # <<"0", "0", "0", "0">> THEN <<IntOf(y)>> ELSE <<>>

\* The truthy years of the values of one field
FieldYears(values) ==
    {y \in UNION {Range(parse_year(values[i])) : i \in 1..Len(values)} : y # 0}

SetMin(S) == CHOOSE x \in S : \A y \in S : x <= y

\* get_year: the earliest year of the first field, by priority, that has one
get_year(paper) ==
    LET ys(f) == FieldYears(Values(paper, f))
    IN  IF ys("year") # {} THEN <<SetMin(ys("year"))>>
        ELSE IF ys("creation-date") # {} THEN <<SetMin(ys("creation-date"))>>
        ELSE IF ys("revision-date") # {} THEN <<SetMin(ys("revision-date"))>>
        ELSE <<>>

\* ------------------------------------------------------------------------
\* Sanitizer (sanitize.py).  The markup of the texts this model enumerates is
\* the paragraph tag, open and closed, and the character references of "&"
\* and "<"; on such texts the HTML5 parse of html2text is what Render
\* computes.  Other elements (formatting, tables, scripts) are not modelled.
\* ------------------------------------------------------------------------

\* \w: letters and digits ("_" is not in the alphabet)
WordChars == UpperChars \cup LowerChars \cup DigitChars

AlphaChars == UpperChars \cup LowerChars

Filter(s, keep(_)) == SelectSeq(s, keep)

\* The control characters of remove_cc's class that the alphabet has: \x0c
ControlChars == {"\f"}

\* remove_cc: the control characters dropped
remove_cc(text) ==
    LET kept(c) == c \notin ControlChars
    IN  Filter(text, kept)

\* pat occurs in s at index i
MatchAt(s, i, pat) ==
    /\ i >= 1
    /\ i + Len(pat) - 1 <= Len(s)
    /\ SubSeq(s, i, i + Len(pat) - 1) = pat

\* The index after the longest run of characters of S that starts at i
RECURSIVE RunEnd(_, _, _)
RunEnd(s, i, S) == IF i <= Len(s) /\ s[i] \in S THEN RunEnd(s, i + 1, S) ELSE i

\* [0-9a-f\s] under re.I
EntityBodyChars == DigitChars \cup {"a", "e", "A", "E"} \cup SpaceChars

\* re.sub(r"&#x?[0-9a-f\s]+;", strip, text, flags=re.I) from index i on
RECURSIVE StripEntitiesFrom(_, _)
StripEntitiesFrom(s, i) ==
    IF i > Len(s) THEN <<>>
    ELSE LET b == IF MatchAt(s, i + 2, <<"x">>) \/ MatchAt(s, i + 2, <<"X">>)
                  THEN i + 3 ELSE i + 2
             e == RunEnd(s, b, EntityBodyChars)
             nonspace(c) == c \notin SpaceChars
         IN  IF MatchAt(s, i, <<"&", "#">>) /\ e > b /\ MatchAt(s, e, <<";">>)
             THEN SubSeq(s, i, b - 1) \o Filter(SubSeq(s, b, e - 1), nonspace)
                  \o <<";">> \o StripEntitiesFrom(s, e + 1)
             ELSE <<s[i]>> \o StripEntitiesFrom(s, i + 1)

\* sanitize_entity: whitespace removed from inside numeric references
sanitize_entity(text) == StripEntitiesFrom(text, 1)

BLOCKTAGS ==
    {<<"d", "i", "v">>, <<"p">>, <<"b", "r">>, <<"l", "i">>, <<"h", "1">>,
     <<"h", "2">>, <<"h", "3">>, <<"h", "4">>, <<"h", "5">>, <<"h", "6">>}

\* re.search("&#?x?[0-9a-z]+;", text): "x?" adds nothing to [0-9a-z]+
HasEntity(t) ==
    \E i \in 1..Len(t) :
        LET b == IF MatchAt(t, i + 1, <<"#">>) THEN i + 2 ELSE i + 1
            e == RunEnd(t, b, LowerChars \cup DigitChars)
        IN  t[i] = "&" /\ e > b /\ MatchAt(t, e, <<";">>)

\* ishtml: a block tag, a closing or self-closing marker, or an entity
ishtml(text) ==
    LET t == Lower(text)
    IN  \/ \E tag \in BLOCKTAGS : \E i \in 1..Len(t) :
              MatchAt(t, i, <<"<">> \o tag \o <<">">>)
        \/ \E i \in 1..Len(t) :
              MatchAt(t, i, <<"<", "/">>) \/ MatchAt(t, i, <<"/", ">">>)
        \/ HasEntity(t)

\* The named character references spelled in the alphabet.  HTML5 takes
\* these three without the semicolon too.
NamedRefs ==
    {[name |-> <<"a", "m", "p">>, ch |-> "&"],
     [name |-> <<"l", "t">>, ch |-> "<"],
     [name |-> <<"g", "t">>, ch |-> ">"]}

\* The character of a code point
CharOfCode(n) ==
    CASE n = 32 -> " " [] n = 38 -> "&" [] n = 60 -> "<" [] n = 62 -> ">"
      [] OTHER -> "?"

\* The index after a reference that ends before index j: its ";" is taken
RefEnd(s, j) == IF MatchAt(s, j, <<";">>) THEN j + 1 ELSE j

\* The named references spelled after the "&" at index i
NamedAt(s, i) == {ref \in NamedRefs : MatchAt(s, i + 1, ref.name)}

\* The numeric reference after the "&" at index i, its digits ending before e
NumericRef(s, i, e) ==
    IF MatchAt(s, i + 1, <<"#">>) /\ e > i + 2
    THEN [ch |-> CharOfCode(IntOf(SubSeq(s, i + 2, e - 1))), next |-> RefEnd(s, e)]
    ELSE [ch |-> "&", next |-> i + 1]

\* The character reference that starts at the "&" at index i: the character
\* it stands for and the index after it; the "&" itself when there is none
CharRef(s, i) ==
    IF NamedAt(s, i) # {}
    THEN [ch   |-> (CHOOSE ref \in NamedAt(s, i) : TRUE).ch,
          next |-> RefEnd(s, i + 1 + Len((CHOOSE ref \in NamedAt(s, i) : TRUE).name))]
    ELSE NumericRef(s, i, RunEnd(s, i + 2, DigitChars))

\* The first index from i on that holds a character of S, Len(s) + 1 if none
RECURSIVE Find(_, _, _)
Find(s, i, S) == IF i > Len(s) \/ s[i] \in S THEN i ELSE Find(s, i + 1, S)

\* The index of a tag's name, after "<" or "</" at index i
TagStart(s, i) == IF MatchAt(s, i + 1, <<"/">>) THEN i + 2 ELSE i + 1

\* The name of the tag whose name starts at index n
TagName(s, n) == Lower(SubSeq(s, n, Find(s, n, {" ", "/", ">"}) - 1))

\* The text of the parsed document from index i on, blocks padded: character
\* references decoded once, a tag (from "<" and a letter, or "</" and a
\* letter, to the next ">") dropped, a paragraph tag leaving a space where
\* it stood (an open paragraph pads its text on both sides, an empty one and
\* a stray "</p>" are one space), a tag the text ends in dropped with the
\* rest, any other "<" kept
RECURSIVE Render(_, _)
RECURSIVE RenderTag(_, _, _)
Render(s, i) ==
    IF i > Len(s) THEN <<>>
    ELSE IF s[i] = "&" THEN <<CharRef(s, i).ch>> \o Render(s, CharRef(s, i).next)
    ELSE IF s[i] = "<" THEN RenderTag(s, i, TagStart(s, i))
    ELSE <<s[i]>> \o Render(s, i + 1)

\* The "<" at index i and what follows it; n is where a tag's name would be
RenderTag(s, i, n) ==
    IF n > Len(s) \/ s[n] \notin AlphaChars THEN <<"<">> \o Render(s, i + 1)
    ELSE IF Find(s, n, {">"}) > Len(s) THEN <<>>
    ELSE (IF TagName(s, n) = <<"p">> THEN <<" ">> ELSE <<>>)
         \o Render(s, Find(s, n, {">"}) + 1)

\* re.sub(r"\s+", " ", text.strip()) from index i on; sp: a space is pending
RECURSIVE SquashFrom(_, _, _)
SquashFrom(s, i, sp) ==
    IF i > Len(s) THEN <<>>
    ELSE IF s[i] \in SpaceChars THEN SquashFrom(s, i + 1, TRUE)
    ELSE (IF sp THEN <<" ", s[i]>> ELSE <<s[i]>>) \o SquashFrom(s, i + 1, FALSE)

\* html2text: the text as it is, or as the parsed document renders it;
\* trimmed, runs of whitespace collapsed
html2text(html) ==
    LET text == IF ishtml(html) THEN Render(html, 1) ELSE html
        body == SquashFrom(text, 1, FALSE)
    IN  IF body # <<>> /\ body[1] = " " THEN Tail(body) ELSE body

\* isna: the word characters, lowercased, spell "na"
isna(token) ==
    LET w(c) == c \in WordChars
    IN  Lower(Filter(token, w)) = <<"n", "a">>

\* isvalid: some character is neither a non-word character nor a digit
isvalid(token) == \E i \in 1..Len(token) : token[i] \in AlphaChars

\* sanitize of an optional text: the cleaned text, or nothing
sanitize(text) ==
    IF text = <<>> THEN <<>>
    ELSE LET t == html2text(sanitize_entity(remove_cc(text[1])))
         IN  IF isna(t) \/ ~isvalid(t) THEN <<>> ELSE <<t>>

\* ------------------------------------------------------------------------
\* Language resolution (papers.py, detect_language and lang_and)
\* ------------------------------------------------------------------------

UN == <<"u", "n">>

\* cld2.detect(text)'s language code.  The detector is an external library:
\* it is modelled as a fixed function of the text, decided by its first letter.
CldCode(text) ==
    LET letters == {i \in 1..Len(text) : text[i] \in AlphaChars}
        c == IF letters = {} THEN " "
             ELSE LowerOf(text[CHOOSE i \in letters : \A k \in letters : i <= k])
    IN  CASE c = "e" -> <<"e", "n">>
          [] c = "g" -> <<"g", "a">>
          [] c = "n" -> <<"n", "n">>
          [] OTHER -> UN

\* detect_language: the code, nothing for "un"
detect_language(text) ==
    LET lang == CldCode(text) IN IF lang # UN THEN <<lang>> ELSE <<>>

\* lang_and(*text, default): the one language all given texts agree on, else
\* the default; texts are optional, the absent ones are skipped
lang_and(texts, default) ==
    LET lang == {detect_language(texts[i][1]) :
                    i \in {k \in 1..Len(texts) : texts[k] # <<>>}}
    IN  IF Cardinality(lang) = 1
        THEN LET l == CHOOSE x \in lang : TRUE
             IN  IF l # <<>> THEN l ELSE default
        ELSE default

\* The declared language of replace_paper (lines 130-131): lowercased, kept
\* when it has 2 characters
DeclaredLanguage(paper) ==
    LET d == First(paper, "language")
        l == IF d = <<>> THEN <<"n", "o", "n", "e">> ELSE Lower(d[1])
    IN  IF Len(l) = 2 THEN <<l>> ELSE <<>>

\* ------------------------------------------------------------------------
\* Storage: the tables listings, papers, authors and papers_jel of one
\* connection.  A table is a set of rows; rows of papers, authors and
\* papers_jel carry the integer key SQLite gives them.
\* ------------------------------------------------------------------------

SetMax(S) == CHOOSE x \in S : \A y \in S : y <= x

\* The key of the next inserted row: one more than the largest key in use
NextId(ids) == IF ids = {} THEN 1 ELSE SetMax(ids) + 1

\* REPLACE INTO papers: the rows that hold the new row's handle are deleted,
\* their author and JEL rows with them (the child tables reference papers with
\* referential integrity enforced), and the new row is inserted under a new key
ReplaceInto(db, r) ==
    LET old  == {p \in db.papers : p.handle = r.handle}
        gone == {p.pid : p \in old}
        rest == db.papers \ old
        pid  == NextId({p.pid : p \in rest})
    IN  [db EXCEPT !.papers    = rest \cup {[r EXCEPT !.pid = pid]},
                   !.authors   = {a \in db.authors : a.pid \notin gone},
                   !.papers_jel = {j \in db.papers_jel : j.pid \notin gone}]

\* executemany(INSERT INTO authors ...): one row per name, in order
RECURSIVE InsertAuthors(_, _, _)
InsertAuthors(rows, pid, names) ==
    IF names = <<>> THEN rows
    ELSE InsertAuthors(
             rows \cup {[id |-> NextId({a.id : a \in rows}), pid |-> pid,
                         name |-> names[1]]},
             pid, Tail(names))

\* executemany(INSERT INTO papers_jel ...): one row per code, in order
RECURSIVE InsertJel(_, _, _)
InsertJel(rows, pid, codes) ==
    IF codes = <<>> THEN rows
    ELSE InsertJel(
             rows \cup {[id |-> NextId({j.id : j \in rows}), pid |-> pid,
                         code |-> codes[1]]},
             pid, Tail(codes))

\* ------------------------------------------------------------------------
\* replace_paper (papers.py:118-153)
\* ------------------------------------------------------------------------

\* The sanitized, non-empty author names of a template, in order (lines 141-147)
RECURSIVE CleanNames(_)
CleanNames(names) ==
    IF names = <<>> THEN <<>>
    ELSE sanitize(<<names[1]>>) \o CleanNames(Tail(names))

AuthorNames(paper) == CleanNames(Values(paper, "author-name"))

\* The codes of a template's first classification-jel value (lines 150-152)
JelCodes(paper, alljel) ==
    LET raw == First(paper, "classification-jel")
    IN  IF raw = <<>> THEN <<>> ELSE parsejel(raw[1], alljel)

\* The row r of replace_paper (lines 122-134).  The key is set on insertion.
\* redif keeps the template itself: json.dumps and zlib.compress lose nothing.
\* The columns template, journal, volume, issue and pages are left out.
PaperRow(paper, url) ==
    LET title    == sanitize(First(paper, "title"))
        abstract == sanitize(First(paper, "abstract"))
    IN  [pid      |-> 0,
         url      |-> url,
         handle   |-> Values(paper, "handle")[1],
         title    |-> title,
         abstract |-> abstract,
         language |-> lang_and(<<title, abstract>>, DeclaredLanguage(paper)),
         year     |-> get_year(paper),
         redif    |-> paper]

\* c.lastrowid after the REPLACE: the key of the row that holds the handle
LastRowId(db, handle) == (CHOOSE p \in db.papers : p.handle = handle).pid

\* replace_paper with INSERT INTO papers where the code has REPLACE INTO
replace_paper_insert(db, paper, url, alljel) ==
    LET pid == NextId({p.pid : p \in db.papers})
        r   == [PaperRow(paper, url) EXCEPT !.pid = pid]
    IN  [db EXCEPT !.papers     = db.papers \cup {r},
                   !.authors    = InsertAuthors(db.authors, pid, AuthorNames(paper)),
                   !.papers_jel = InsertJel(db.papers_jel, pid, JelCodes(paper, alljel))]

\* replace_paper: the row replaced, then its author and JEL rows inserted
replace_paper(db, paper, url, alljel) ==
    LET r   == PaperRow(paper, url)
        db1 == ReplaceInto(db, r)
        pid == LastRowId(db1, r.handle)
    IN  [db1 EXCEPT !.authors    = InsertAuthors(db1.authors, pid, AuthorNames(paper)),
                    !.papers_jel = InsertJel(db1.papers_jel, pid, JelCodes(paper, alljel))]

\* ------------------------------------------------------------------------
\* Documents and load (redif.py, papers.py:32-51)
\* ------------------------------------------------------------------------

\* The listings' URLs and urlparse(url)[0]
Urls == {"http://a", "ftp://b", "file://c"}

Scheme(url) ==
    CASE url = "http://a" -> "http"
      [] url = "ftp://b"  -> "ftp"
      [] OTHER            -> "file"

\* What a fetch gives: error is the transport failure's text ("" for none);
\* marker tells whether the bytes decode to a text that holds "template-type",
\* pairs are the (field, value) pairs redif.load tokenizes that text into
Fetched(marker, pairs) == [error |-> "", marker |-> marker, pairs |-> pairs]

TransportFailure(text) == [error |-> text, marker |-> FALSE, pairs |-> <<>>]

\* split(lst, sel) of redif.py with sel = "the field is template-type": a new
\* group starts at every such pair; the groups in order, the first one (the
\* pairs before the first template-type) included
RECURSIVE split(_, _)
split(lst, groups) ==
    IF lst = <<>> THEN groups
    ELSE LET n == Len(groups)
         IN  IF lst[1].k = "template-type"
             THEN split(Tail(lst), Append(groups, <<lst[1]>>))
             ELSE split(Tail(lst), [groups EXCEPT ![n] = Append(groups[n], lst[1])])

\* redif.load: the templates of a document, the leading group dropped
redif_load(pairs) == Tail(split(pairs, <<(<<>>)>>))

\* What load returns or raises: raised tells whether the error leaves load as
\* an exception (TRUE) or as a returned value (FALSE)
Loaded(papers) == [ok |-> TRUE, raised |-> FALSE, err |-> "", papers |-> papers]

Failure(text) == [ok |-> FALSE, raised |-> TRUE, err |-> text, papers |-> <<>>]

\* The check of the mandatory fields looking at the first template only
MissingFieldOfFirst(papers) ==
    IF papers = <<>> THEN ""
    ELSE IF "handle" \notin Fields(papers[1]) THEN "handle"
    ELSE IF "template-type" \notin Fields(papers[1]) THEN "template-type"
    ELSE ""

\* The first mandatory field a document's templates lack, "" when none does
RECURSIVE MissingField(_)
MissingField(papers) ==
    IF papers = <<>> THEN ""
    ELSE IF "handle" \notin Fields(papers[1]) THEN "handle"
    ELSE IF "template-type" \notin Fields(papers[1]) THEN "template-type"
    ELSE MissingField(Tail(papers))

\* The body of load (lines 35-51), got being what the transport gives for url
load_body(url, got) ==
    IF Scheme(url) \notin {"ftp", "http", "https"} THEN Failure("Unknown scheme file")
    ELSE IF got.error # "" THEN Failure(got.error)
    ELSE IF ~got.marker THEN Failure("Decoding Error")
    ELSE LET papers == redif_load(got.pairs)
             f      == MissingField(papers)
         IN  IF f = "handle" THEN Failure("handle is missing")
             ELSE IF f = "template-type" THEN Failure("template-type is missing")
             ELSE IF Len(papers) = 0 THEN Failure("Empty series")
             ELSE Loaded(papers)

\* @silent: an exception of the wrapped function is returned, not raised
silent(result) == [result EXCEPT !.raised = FALSE]

\* load without its decorator: an error leaves it as an exception
load_undecorated(url, got) == load_body(url, got)

\* load, as decorated
load(url, got) == silent(load_body(url, got))

\* iserror(papers)
iserror(result) == ~result.ok

\* ------------------------------------------------------------------------
\* The environment: the reference table and what the hosts serve
\* ------------------------------------------------------------------------

G1 == <<"G", "1">>

G2 == <<"G", "2">>

\* The table jel(code, parent); a top-level code has no parent
JelTable ==
    {[code |-> <<"G">>, parent |-> <<>>],
     [code |-> <<"R">>, parent |-> <<>>],
     [code |-> <<"Z">>, parent |-> <<>>],
     [code |-> G1, parent |-> <<(<<"G">>)>>],
     [code |-> G2, parent |-> <<(<<"G">>)>>],
     [code |-> <<"R", "0">>, parent |-> <<(<<"R">>)>>],
     [code |-> R00, parent |-> <<(<<"R", "0">>)>>],
     [code |-> Z0, parent |-> <<(<<"Z">>)>>]}

TT == F("template-type", <<"R">>)

HandleA == F("handle", <<"a">>)

HandleE == F("handle", <<"e">>)

\* One paper: an author, two classification tokens of which one is official
DocOne ==
    Fetched(TRUE, <<TT, HandleA, F("author-name", <<"A", "n">>),
                    F("classification-jel", <<"G", "1", " ", "G", "9">>)>>)

\* Two papers; the first has a placeholder author, the second three codes
DocTwo ==
    Fetched(TRUE, <<TT, HandleA, F("author-name", <<"E", "z">>),
                    F("author-name", <<"n", "a">>),
                    TT, HandleE,
                    F("classification-jel", <<"g", "2", ",", "R", "0", "0", " ", "Z", "0">>)>>)

\* Two templates that carry the same handle
DocDup ==
    Fetched(TRUE, <<TT, HandleA, F("author-name", <<"A", "n">>),
                    F("classification-jel", <<"G", "-", "2">>),
                    TT, HandleA, F("author-name", <<"Z", "e">>)>>)

\* A well-formed template followed by one without a handle
DocNoHandle ==
    Fetched(TRUE, <<TT, HandleE, F("author-name", <<"A", "n">>),
                    TT, F("title", <<"e", "n">>)>>)

\* The marker occurs in the text, but no line starts a template
DocNoTemplate == Fetched(TRUE, <<HandleA, F("title", <<"e", "n">>)>>)

\* No candidate encoding yields the marker
DocGarbled == Fetched(FALSE, <<>>)

Catalogue ==
    {DocOne, DocTwo, DocDup, DocNoHandle, DocNoTemplate, DocGarbled,
     TransportFailure("timed out")}

\* ------------------------------------------------------------------------
\* Settings and bounds
\* ------------------------------------------------------------------------

\* settings.batch_size
BatchSize == 2

\* settings.no_threads_www
NoThreads == 2

\* The runs of update() the model follows
MaxRuns == 2

\* Listing statuses (papers.py:162, 165, 173)
StatusOk == 0

StatusPending == 1

StatusError == 2

\* ------------------------------------------------------------------------
\* State
\* ------------------------------------------------------------------------

VARIABLES
    db,          \* the connection's view of the tables (open transaction included)
    durable,     \* the tables as last committed
    pc,          \* where update() is: idle, loop, batch, raising, failed, done
    alljel,      \* update_papers: the official codes read at the start
    urls,        \* update_papers: the shuffled URLs of the run
    batchNo,     \* update_papers: i, the batches finished
    total,       \* update_papers: status, the tally of the run
    reported,    \* the "bs out of len(batch)" lines printed, in order
    final,       \* the "All batches" line printed: <<>> or <<[ok, n]>>
    w,           \* per URL, its worker: st, got (what the host served), res
                 \* (what load gave), k (its place in the write section), ret
    lock,        \* the holder of the threading.Lock, "free" when none
    reqStatus,   \* update_papers: the status argument
    startStatus, \* the listings table when the run started
    attempts,    \* per URL, the loads of the run
    lastBatch,   \* the tables when the run's last finished batch ended
    runsLeft,    \* the runs still to start
    base,        \* the open transaction's tables as the write sections left
                 \* them: at the run's start, at the last entry to or exit
                 \* from the lock
    san          \* a text under sanitize: the passes made, the input, the
                 \* result of the first pass and of the second

vars == <<db, durable, pc, alljel, urls, batchNo, total, reported, final, w,
          lock, reqStatus, startStatus, attempts, lastBatch, runsLeft, base, san>>

NoResult == [ok |-> FALSE, raised |-> FALSE, err |-> "", papers |-> <<>>]

NoText == [n |-> 0, x |-> <<>>, once |-> <<>>, twice |-> <<>>]

Idle ==
    [st |-> "none", got |-> TransportFailure(""), res |-> NoResult, k |-> 0,
     ret |-> FALSE]

ListingRow(status) ==
    [status |-> status,
     error  |-> IF status = StatusError THEN <<"old error">> ELSE <<>>]

EmptyTables(statuses) ==
    [listings   |-> [u \in Urls |-> ListingRow(statuses[u])],
     papers     |-> {},
     authors    |-> {},
     papers_jel |-> {}]

InitWith(statuses, runs) ==
    /\ db = EmptyTables(statuses)
    /\ durable = db
    /\ pc = "idle"
    /\ alljel = {}
    /\ urls = <<>>
    /\ batchNo = 0
    /\ total = 0
    /\ reported = <<>>
    /\ final = <<>>
    /\ w = [u \in Urls |-> Idle]
    /\ lock = "free"
    /\ reqStatus = StatusPending
    /\ startStatus = db.listings
    /\ attempts = [u \in Urls |-> 0]
    /\ lastBatch = db
    /\ runsLeft = runs
    /\ base = db
    /\ san = NoText

\* The database as init leaves it and remotes.update fills it: listings in
\* any status, no paper yet
InitStatuses ==
    {st \in [Urls -> {StatusOk, StatusPending, StatusError}] :
        /\ st["http://a"] = StatusPending
        /\ st["ftp://b"] # StatusOk
        /\ st["file://c"] # StatusError}

Init == \E statuses \in InitStatuses : InitWith(statuses, MaxRuns)

\* ------------------------------------------------------------------------
\* update and update_papers (papers.py:173-215)
\* ------------------------------------------------------------------------

\* random.sample(urls, k=len(urls)): the orders of a set
Perms(S) ==
    {f \in [1..Cardinality(S) -> S] : \A i, j \in DOMAIN f : f[i] = f[j] => i = j}

\* math.ceil(len(urls) / size)
NoBatches == (Len(urls) + BatchSize - 1) \div BatchSize

\* The slice taken one URL too long: urls[i * size : (i + 1) * size + 1]
BatchOverlapping(i) ==
    LET lo == i * BatchSize + 1
        hi == IF (i + 1) * BatchSize + 1 < Len(urls) THEN (i + 1) * BatchSize + 1
              ELSE Len(urls)
    IN  {urls[k] : k \in lo..hi}

\* urls[i * size : (i + 1) * size]
Batch(i) ==
    LET lo == i * BatchSize + 1
        hi == IF (i + 1) * BatchSize < Len(urls) THEN (i + 1) * BatchSize ELSE Len(urls)
    IN  {urls[k] : k \in lo..hi}

\* update() connects and update_papers reads the reference table and the
\* listings of the requested status (lines 202-207, 173-188)
StartRun(status) ==
    /\ pc \in {"idle", "done", "failed"}
    /\ runsLeft > 0
    /\ runsLeft' = runsLeft - 1
    /\ reqStatus' = status
    /\ alljel' = {r.code : r \in {x \in JelTable : x.parent # <<>>}}
    /\ \E order \in Perms({u \in Urls : durable.listings[u].status = status}) :
           urls' = order
    /\ db' = durable
    /\ lastBatch' = durable
    /\ startStatus' = durable.listings
    /\ attempts' = [u \in Urls |-> 0]
    /\ w' = [u \in Urls |-> Idle]
    /\ lock' = "free"
    /\ batchNo' = 0
    /\ total' = 0
    /\ reported' = <<>>
    /\ final' = <<>>
    /\ pc' = "loop"
    /\ base' = durable
    /\ UNCHANGED <<san, durable>>

\* The loop's next turn: parallel() hands the batch to the pool (lines 189-192)
StartBatch ==
    /\ pc = "loop"
    /\ batchNo < NoBatches
    /\ w' = [u \in Urls |-> IF u \in Batch(batchNo)
                            THEN [Idle EXCEPT !.st = "queued"] ELSE w[u]]
    /\ pc' = "batch"
    /\ UNCHANGED <<san, base, db, durable, alljel, urls, batchNo, total, reported, final,
                   lock, reqStatus, startStatus, attempts, lastBatch, runsLeft>>

\* The loop's turn ending with conn.commit() left out
EndBatchUncommitted ==
    /\ pc = "batch"
    /\ \A u \in Batch(batchNo) : w[u].st = "done"
    /\ LET bs == Cardinality({u \in Batch(batchNo) : w[u].ret})
       IN  /\ total' = total + bs
           /\ reported' = Append(reported, [ok |-> bs, n |-> Cardinality(Batch(batchNo))])
    /\ lastBatch' = db
    /\ batchNo' = batchNo + 1
    /\ pc' = "loop"
    /\ UNCHANGED <<san, base, db, durable, alljel, urls, final, w, lock, reqStatus,
                   startStatus, attempts, runsLeft>>

\* sum(parallel(...)) is there: the tally, the commit, the report (lines 192-195)
EndBatch ==
    /\ pc = "batch"
    /\ \A u \in Batch(batchNo) : w[u].st = "done"
    /\ LET bs == Cardinality({u \in Batch(batchNo) : w[u].ret})
       IN  /\ total' = total + bs
           /\ reported' = Append(reported, [ok |-> bs, n |-> Cardinality(Batch(batchNo))])
    /\ durable' = db
    /\ lastBatch' = db
    /\ batchNo' = batchNo + 1
    /\ pc' = "loop"
    /\ UNCHANGED <<san, base, db, alljel, urls, final, w, lock, reqStatus, startStatus,
                   attempts, runsLeft>>

\* The loop is over: the final report, update()'s commit and close
\* (lines 197, 213-215)
FinishRun ==
    /\ pc = "loop"
    /\ batchNo >= NoBatches
    /\ final' = <<[ok |-> total, n |-> Len(urls)]>>
    /\ durable' = db
    /\ pc' = "done"
    /\ UNCHANGED <<san, base, db, alljel, urls, batchNo, total, reported, w, lock,
                   reqStatus, startStatus, attempts, lastBatch, runsLeft>>

\* update()'s except branch committing what the failed batch wrote
RollbackCommits ==
    /\ pc = "raising"
    /\ durable' = db
    /\ pc' = "failed"
    /\ UNCHANGED <<san, base, db, alljel, urls, batchNo, total, reported, final, w,
                   lock, reqStatus, startStatus, attempts, lastBatch, runsLeft>>

\* update()'s except branch: the rollback, and the exception leaves the run
\* (lines 210-212)
Rollback ==
    /\ pc = "raising"
    /\ db' = durable
    /\ pc' = "failed"
    /\ UNCHANGED <<san, base, durable, alljel, urls, batchNo, total, reported, final, w,
                   lock, reqStatus, startStatus, attempts, lastBatch, runsLeft>>

\* ------------------------------------------------------------------------
\* update_papers_1 (papers.py:156-170), one worker per URL of the batch
\* ------------------------------------------------------------------------

\* The workers a pool thread is running
Running == {u \in Urls : w[u].st \in {"loaded", "locked"}}

\* The UPDATE of the listing row (lines 161-166)
ListingUpdate(tables, url, res) ==
    [tables EXCEPT !.listings[url] =
        IF iserror(res) THEN [status |-> StatusError, error |-> <<res.err>>]
        ELSE [status |-> StatusOk, error |-> <<>>]]

\* update_papers_1 returning iserror(papers), the negation lost
WorkerReturnInverted(res) == iserror(res)

\* The value update_papers_1 returns (line 170)
WorkerReturn(res) == ~iserror(res)

WorkersMove == pc \in {"batch", "raising"}

\* What a fetch of url may give: nothing is fetched for an unknown scheme
Served(url, outcomes) ==
    IF Scheme(url) \in {"ftp", "http", "https"} THEN outcomes ELSE {TransportFailure("")}

\* papers = load(url), outside the lock (line 158); got is what the host serves
LoadFrom(u, outcomes) ==
    /\ WorkersMove
    /\ w[u].st = "queued"
    /\ Cardinality(Running) < NoThreads
    /\ \E got \in Served(u, outcomes) :
         LET res == load(u, got)
         IN  /\ w' = [w EXCEPT ![u] = [@ EXCEPT !.st = IF res.raised THEN "raised"
                                                      ELSE "loaded",
                                                !.got = got, !.res = res]]
             /\ pc' = IF res.raised THEN "raising" ELSE pc
    /\ attempts' = [attempts EXCEPT ![u] = @ + 1]
    /\ UNCHANGED <<san, base, db, durable, alljel, urls, batchNo, total, reported, final,
                   lock, reqStatus, startStatus, lastBatch, runsLeft>>

Load(u) == LoadFrom(u, Catalogue)

\* The write section entered without waiting for the lock
AcquireUnguarded(u) ==
    /\ WorkersMove
    /\ w[u].st = "loaded"
    /\ lock' = u
    /\ base' = db
    /\ w' = [w EXCEPT ![u] = [@ EXCEPT !.st = "locked", !.k = 0]]
    /\ UNCHANGED <<san, db, durable, pc, alljel, urls, batchNo, total, reported,
                   final, reqStatus, startStatus, attempts, lastBatch, runsLeft>>

\* with lock: (line 159)
Acquire(u) ==
    /\ WorkersMove
    /\ w[u].st = "loaded"
    /\ lock = "free"
    /\ lock' = u
    /\ w' = [w EXCEPT ![u] = [@ EXCEPT !.st = "locked", !.k = 0]]
    /\ base' = db
    /\ UNCHANGED <<san, db, durable, pc, alljel, urls, batchNo, total, reported,
                   final, reqStatus, startStatus, attempts, lastBatch, runsLeft>>

\* The listing's status and error are set (lines 161-166)
WriteListing(u) ==
    /\ WorkersMove
    /\ w[u].st = "locked"
    /\ lock = u
    /\ w[u].k = 0
    /\ db' = ListingUpdate(db, u, w[u].res)
    /\ w' = [w EXCEPT ![u] = [@ EXCEPT !.k = 1]]
    /\ UNCHANGED <<san, base, durable, pc, alljel, urls, batchNo, total, reported, final,
                   lock, reqStatus, startStatus, attempts, lastBatch, runsLeft>>

\* The templates a worker still has to write
PapersLeft(u) ==
    /\ w[u].st = "locked"
    /\ lock = u
    /\ w[u].k >= 1
    /\ ~iserror(w[u].res)
    /\ w[u].k <= Len(w[u].res.papers)

\* One turn of "for paper in papers: replace_paper(...)" (lines 167-168)
WritePaper(u) ==
    /\ WorkersMove
    /\ PapersLeft(u)
    /\ db' = replace_paper(db, w[u].res.papers[w[u].k], u, alljel)
    /\ w' = [w EXCEPT ![u] = [@ EXCEPT !.k = @ + 1]]
    /\ UNCHANGED <<san, base, durable, pc, alljel, urls, batchNo, total, reported, final,
                   lock, reqStatus, startStatus, attempts, lastBatch, runsLeft>>

\* replace_paper raises (the storage fails, or a step of the row's making
\* does): nothing in update_papers_1 catches it, the with block releases the
\* lock and the exception leaves the worker.  partial: the REPLACE was done.
WriteFail(u) ==
    /\ WorkersMove
    /\ PapersLeft(u)
    /\ \E partial \in BOOLEAN :
         db' = IF partial
               THEN ReplaceInto(db, PaperRow(w[u].res.papers[w[u].k], u))
               ELSE db
    /\ w' = [w EXCEPT ![u] = [@ EXCEPT !.st = "raised"]]
    /\ lock' = "free"
    /\ pc' = "raising"
    /\ base' = db'
    /\ UNCHANGED <<san, durable, alljel, urls, batchNo, total, reported, final,
                   reqStatus, startStatus, attempts, lastBatch, runsLeft>>

\* c.close(), the lock is released, the worker returns (lines 169-170)
Release(u) ==
    /\ WorkersMove
    /\ w[u].st = "locked"
    /\ lock = u
    /\ w[u].k >= 1
    /\ iserror(w[u].res) \/ w[u].k > Len(w[u].res.papers)
    /\ lock' = "free"
    /\ w' = [w EXCEPT ![u] = [@ EXCEPT !.st = "done", !.ret = WorkerReturn(w[u].res)]]
    /\ base' = db
    /\ UNCHANGED <<san, db, durable, pc, alljel, urls, batchNo, total, reported,
                   final, reqStatus, startStatus, attempts, lastBatch, runsLeft>>

Worker(u) ==
    \/ Load(u)
    \/ Acquire(u)
    \/ WriteListing(u)
    \/ WritePaper(u)
    \/ WriteFail(u)
    \/ Release(u)

Next ==
    \/ \E status \in {StatusPending, StatusError} : StartRun(status)
    \/ StartBatch
    \/ EndBatch
    \/ FinishRun
    \/ Rollback
    \/ \E u \in Urls : Worker(u)

Spec == Init /\ [][Next]_vars

\* ------------------------------------------------------------------------
\* A second environment: one listing, one run, and hosts that serve every
\* document of one template whose classification, dates or language fields
\* are drawn from bounded sets of texts
\* ------------------------------------------------------------------------

\* Fragments of one classification-jel value
MaxFrag == 3

\* Characters of one year, creation-date or revision-date value
MaxYearLen == 5

\* Characters of one language value
MaxLangLen == 3

\* The texts of at most n characters over chars
Texts(chars, n) == UNION {[1..k -> chars] : k \in 0..n}

RECURSIVE Flatten(_)
Flatten(ss) == IF ss = <<>> THEN <<>> ELSE ss[1] \o Flatten(Tail(ss))

JelFragments ==
    {G1, <<",", " ">>, <<"g", "-", "2">>, <<"G", "-", ".", "2">>, R00, Z0,
     <<"G", "1", "9", "9">>, <<"E", "1">>, <<"r", " ", "0">>, <<" ">>}

JelTexts == {Flatten(fs) : fs \in Texts(JelFragments, MaxFrag)}

YearTexts == Texts({"0", "1", "9", "-"}, MaxYearLen)

\* Dates for the documents that fill several date fields
FewDates ==
    {<<"e">>, <<"0", "0", "0", "0">>, <<"0", "1", "2", "3">>,
     <<"1", "9", "9", "9", "-", "0", "1">>, <<"2", "0", "1", "3">>}

LangTexts == Texts({"e", "N", "1", "-"}, MaxLangLen)

\* Titles and abstracts: detected as en, as ga, as unknown; sanitized away
FewTitles == {<<"e", "n">>, <<"G", "a", " ", "e">>, <<"z", "a">>, <<"1", "2">>}

Opt(S) == {<<>>} \cup {<<x>> : x \in S}

\* The pairs of field f for each value of vs, in order
RECURSIVE Pairs(_, _)
Pairs(f, vs) == IF vs = <<>> THEN <<>> ELSE <<F(f, vs[1])>> \o Pairs(f, Tail(vs))

OneTemplate(fields) == Fetched(TRUE, <<TT, HandleA>> \o fields)

JelDocs == {OneTemplate(Pairs("classification-jel", <<t>>)) : t \in JelTexts}

YearDocs ==
    {OneTemplate(Pairs("year", <<t>>)) : t \in YearTexts}
    \cup {OneTemplate(Pairs("year", y) \o Pairs("creation-date", c)
                      \o Pairs("revision-date", r)) :
             y \in Texts(FewDates, 2), c \in Opt(FewDates), r \in Opt(FewDates)}

LangDocs ==
    {OneTemplate(Pairs("language", l) \o Pairs("title", t) \o Pairs("abstract", a)) :
        l \in Opt(LangTexts), t \in Opt(FewTitles), a \in Opt(FewTitles)}

EnrichCatalogue == JelDocs \cup YearDocs \cup LangDocs

InitEnrich ==
    InitWith([u \in Urls |-> IF u = "http://a" THEN StatusPending ELSE StatusOk], 1)

LoadEnrich(u) == LoadFrom(u, EnrichCatalogue)

NextEnrich ==
    \/ StartRun(StatusPending)
    \/ StartBatch
    \/ EndBatch
    \/ FinishRun
    \/ Rollback
    \/ \E u \in Urls :
         \/ LoadEnrich(u)
         \/ Acquire(u)
         \/ WriteListing(u)
         \/ WritePaper(u)
         \/ WriteFail(u)
         \/ Release(u)

SpecEnrich == InitEnrich /\ [][NextEnrich]_vars

\* ------------------------------------------------------------------------
\* The sanitizer on its own: a value is sanitized, and the result again
\* ------------------------------------------------------------------------

\* Pieces of one text
MaxParts == 3

\* Words, whitespace, a control character, markup, and markup escaped once
SanFragments ==
    {<<"a">>, <<"n">>, <<" ">>, <<"\f">>,
     <<"&", "a", "m", "p", ";">>, <<"a", "m", "p", ";">>,
     <<"<", "p", ">">>, <<"<", "/", "p", ">">>,
     <<"&", "l", "t", ";", "p", ">">>,
     <<"&", "#", " ", "3", "8", ";">>}

\* The values sanitize is given: a text, or nothing
SanTexts == Opt({Flatten(fs) : fs \in Texts(SanFragments, MaxParts)})

InitSanitize ==
    InitWith([u \in Urls |-> StatusOk], 0)

SanitizeOnce ==
    /\ san.n = 0
    /\ \E x \in SanTexts :
          san' = [n |-> 1, x |-> x, once |-> sanitize(x), twice |-> <<>>]
    /\ UNCHANGED <<db, durable, pc, alljel, urls, batchNo, total, reported,
                   final, w, lock, reqStatus, startStatus, attempts, lastBatch,
                   runsLeft, base>>

SanitizeAgain ==
    /\ san.n = 1
    /\ san' = [san EXCEPT !.n = 2, !.twice = sanitize(san.once)]
    /\ UNCHANGED <<db, durable, pc, alljel, urls, batchNo, total, reported,
                   final, w, lock, reqStatus, startStatus, attempts, lastBatch,
                   runsLeft, base>>

NextSanitize == SanitizeOnce \/ SanitizeAgain

SpecSanitize == InitSanitize /\ [][NextSanitize]_vars

\* ------------------------------------------------------------------------
\* Properties
\* ------------------------------------------------------------------------

\* The URLs of the run
RunUrls == Range(urls)

\* A worker whose load gave an error
LoadFailed(u) == w[u].st \in {"loaded", "locked", "done", "raised"} /\ iserror(w[u].res)

\* A worker whose load gave templates
LoadSucceeded(u) == w[u].st \in {"loaded", "locked", "done", "raised"} /\ ~iserror(w[u].res)

\* C1, as stated: an error raised anywhere in a document's processing (fetch,
\* decode, parse, mandatory-field check, collect, sanitize, enrich, upsert)
\* aborts only that document: no worker lets an exception out and the run is
\* never aborted.
C1_NoErrorAbortsTheRun ==
    /\ pc \notin {"raising", "failed"}
    /\ \A u \in Urls : w[u].st # "raised"

\* C1, amended: an error raised while loading a document (fetch, decode,
\* parse, mandatory-field check) never leaves the worker: it is recorded as
\* error status with its text on the listing, the other URLs of the batch and
\* the later batches are still processed, and a run is aborted only by an
\* exception of the write section of a document that loaded.
C1_LoadErrorsAreIsolated ==
    /\ \A u \in Urls : LoadFailed(u) => w[u].st # "raised"
    /\ \A u \in Urls :
         (LoadFailed(u) /\ w[u].st = "done" /\ pc # "failed")
            => db.listings[u] = [status |-> StatusError, error |-> <<w[u].res.err>>]
    /\ pc \in {"raising", "failed"}
         => \E u \in Urls : w[u].st = "raised" /\ LoadSucceeded(u)
    /\ (pc = "batch" /\ \A u \in Urls : w[u].st # "raised")
         => \A u \in Batch(batchNo) : w[u].st \in {"queued", "loaded", "locked", "done"}
    /\ pc = "done" => \A u \in RunUrls : w[u].st = "done" /\ attempts[u] = 1

\* C1, witness: a run is over in which a URL of the first batch failed to load
\* and a URL of the second batch was written
C1_Witness ==
    /\ pc = "done"
    /\ batchNo = 2
    /\ \E u \in Batch(0), v \in Batch(1) : LoadFailed(u) /\ w[v].ret

RECURSIVE SumOk(_)
SumOk(lines) == IF lines = <<>> THEN 0 ELSE lines[1].ok + SumOk(Tail(lines))

\* The URLs of a set whose listing is in error with a diagnostic text
InError(tables, S) ==
    {u \in S : /\ tables.listings[u].status = StatusError
               /\ tables.listings[u].error # <<>>
               /\ tables.listings[u].error[1] # ""}

\* The URLs of a set whose listing is ok with no diagnostic text
InOk(tables, S) ==
    {u \in S : tables.listings[u].status = StatusOk /\ tables.listings[u].error = <<>>}

\* C2: for a finished batch of n URLs of which k failed to load, the line
\* reported is "n-k out of n", exactly k of its listings are in error with a
\* non-empty diagnostic text and exactly n-k are ok with none; the final line
\* of a run is the sum of the batches' counts out of the run's URLs.
C2_BatchTally ==
    /\ Len(reported) = batchNo
    /\ \A i \in 0..(batchNo - 1) :
         LET n == Cardinality(Batch(i))
             k == Cardinality({u \in Batch(i) : LoadFailed(u)})
         IN  /\ reported[i + 1] = [ok |-> n - k, n |-> n]
             /\ Cardinality(InError(durable, Batch(i))) = k
             /\ Cardinality(InOk(durable, Batch(i))) = n - k
    /\ final # <<>> => final[1] = [ok |-> SumOk(reported), n |-> Len(urls)]

\* C2, witness: a batch of two URLs is reported, one failed in transport and
\* one was written
C2_Witness ==
    /\ batchNo >= 1
    /\ Cardinality(Batch(0)) = 2
    /\ \E u, v \in Batch(0) : w[u].res.err = "timed out" /\ w[v].ret
    /\ reported[1].ok = 1

\* C3: when a run fails during batch k the transaction is rolled back: the
\* durable tables are those committed at the end of batch k-1 (of the run's
\* start for k = 1) and the connection sees nothing else; nothing is
\* committed inside a batch, and at every batch's end all it wrote is durable.
C3_RollbackToLastBatch ==
    /\ durable = lastBatch
    /\ pc = "failed" => db = durable
    /\ pc \in {"loop", "done"} => durable = db

\* C3, witness: a run failed in its second batch after the worker of that
\* batch had set its listing and written its first paper; the first batch's
\* papers are durable, that worker's listing is as it was when the run started
C3_Witness ==
    /\ pc = "failed"
    /\ batchNo = 1
    /\ \E u \in Batch(0) : w[u].ret /\ durable.listings[u].status = StatusOk
    /\ durable.papers # {}
    /\ \E v \in Batch(1) :
         /\ w[v].st = "raised"
         /\ w[v].k = 2
         /\ durable.listings[v] = startStatus[v]
         /\ startStatus[v].status = StatusPending

\* The values of column col of the rows of a child table that hang on key
\* pid, in the order of their insertion
RECURSIVE InOrder(_, _)
InOrder(rows, col) ==
    IF rows = {} THEN <<>>
    ELSE LET r == CHOOSE x \in rows : \A y \in rows : x.id <= y.id
         IN  <<r[col]>> \o InOrder(rows \ {r}, col)

AuthorsOf(tables, pid) == InOrder({a \in tables.authors : a.pid = pid}, "name")

CodesOf(tables, pid) == InOrder({j \in tables.papers_jel : j.pid = pid}, "code")

\* The official codes: SELECT code FROM jel WHERE parent IS NOT NULL
Official == {r.code : r \in {x \in JelTable : x.parent # <<>>}}

\* One row per handle and per key, no child row without its paper, and every
\* paper's author and JEL rows are those of the template kept in its row
Consistent(tables) ==
    /\ \A p, q \in tables.papers : (p.handle = q.handle \/ p.pid = q.pid) => p = q
    /\ \A a \in tables.authors : \E p \in tables.papers : p.pid = a.pid
    /\ \A j \in tables.papers_jel : \E p \in tables.papers : p.pid = j.pid
    /\ \A p \in tables.papers :
         /\ AuthorsOf(tables, p.pid) = AuthorNames(p.redif)
         /\ CodesOf(tables, p.pid) = JelCodes(p.redif, Official)

\* C4: after any sequence of writes (in one document, one batch, across
\* batches and runs) there is at most one paper row per handle, and the author
\* and JEL rows of a handle are exactly those derived from the version of the
\* paper written last, the one its row keeps: no row of an earlier version
\* remains.  It holds of the durable tables, and of the connection's view
\* unless a write has just failed half way.
C4_OneVersionPerHandle ==
    /\ Consistent(durable)
    /\ pc # "raising" => Consistent(db)

\* C4, witness: a paper that replaced an earlier version of its handle (its
\* key shows two earlier inserts) is durable with an author row of its own,
\* beside a paper of the other handle
C4_Witness ==
    /\ Cardinality(durable.papers) = 2
    /\ \E p \in durable.papers :
         /\ p.pid >= 3
         /\ AuthorsOf(durable, p.pid) # <<>>
         /\ p.url = "ftp://b"

\* A document load must reject: it has no template, or one of its templates
\* lacks a handle or a template-type field
Malformed(got) ==
    LET ts == redif_load(got.pairs)
    IN  \/ ts = <<>>
        \/ \E i \in 1..Len(ts) : ~({"handle", "template-type"} \subseteq Fields(ts[i]))

\* The worker of u has loaded a document of that kind
Rejected(u) ==
    /\ w[u].st \in {"loaded", "locked", "done", "raised"}
    /\ w[u].got.error = ""
    /\ w[u].got.marker
    /\ Malformed(w[u].got)

\* C5: a document with no template, or with a template that lacks "handle" or
\* "template-type", is rejected as a whole: load gives an error, its worker
\* never enters the loop that writes paper, author and JEL rows (not for its
\* well-formed templates either) and raises nothing, and when the worker is
\* done the listing is in error status.
C5_MalformedIsRejected ==
    \A u \in Urls : Rejected(u) =>
        /\ iserror(w[u].res)
        /\ w[u].st # "raised"
        /\ w[u].k <= 1
        /\ (w[u].st = "done" /\ pc # "failed")
              => db.listings[u].status = StatusError

\* C5, witness: the worker of a document whose second template lacks a
\* handle is done, its listing is in error and no paper came from its URL
C5_Witness ==
    \E u \in Urls :
        /\ w[u].st = "done"
        /\ w[u].got = DocNoHandle
        /\ db.listings[u].status = StatusError
        /\ \A p \in db.papers : p.url # u

\* C6: a run attempts only listings whose status at its start is the
\* requested one, each at most once and, when the run completes, each exactly
\* once; an attempt leaves the listing ok or in error, whichever it is the
\* listing is not attempted again in the run, and the listings of any other
\* status are left as they were.
C6_AttemptsFollowStatus ==
    /\ \A u \in Urls :
         /\ attempts[u] <= 1
         /\ attempts[u] = 1 => startStatus[u].status = reqStatus
         /\ w[u].st # "none" => u \in RunUrls
         /\ (w[u].st = "done" /\ pc # "failed")
               => db.listings[u].status = (IF w[u].ret THEN StatusOk ELSE StatusError)
         /\ startStatus[u].status # reqStatus
               => db.listings[u] = startStatus[u] /\ durable.listings[u] = startStatus[u]
    /\ pc = "done" =>
         \A u \in Urls :
            startStatus[u].status = reqStatus
               => /\ attempts[u] = 1
                  /\ durable.listings[u].status \in {StatusOk, StatusError}

\* C6, witness: a completed run that asked for the listings in error: one was
\* attempted and failed again, one was attempted and is ok, one had another
\* status and was left alone
C6_Witness ==
    /\ pc = "done"
    /\ reqStatus = StatusError
    /\ \E u, v, x \in Urls :
         /\ attempts[u] = 1 /\ durable.listings[u].status = StatusError
         /\ attempts[v] = 1 /\ durable.listings[v].status = StatusOk
         /\ attempts[x] = 0 /\ startStatus[x].status = StatusOk

\* The raw classification of a paper row's template ("" when it has none)
RawJel(p) ==
    LET raw == First(p.redif, "classification-jel")
    IN  IF raw = <<>> THEN <<>> ELSE raw[1]

\* What the claim says becomes of the tokens of a raw classification: a token
\* in the table is kept, one whose 2-character prefix is in the table is
\* replaced by that prefix, any other is dropped
MappedTokens(raw, table) ==
    {c \in JelTokens(raw) : c \in table}
    \cup {Prefix(c, 2) : c \in {x \in JelTokens(raw) : x \notin table /\ Prefix(x, 2) \in table}}

\* C7: every JEL row of a paper holds a code of the official table read at
\* the start of the run, and it is a token of the paper's classification kept
\* on exact match or the 2-character prefix of a token that is in the table;
\* the durable rows of a paper are all the codes so obtained (none at all when
\* these are R00 and Z0, the boilerplate parsejel discards).
C7_JelRowsAreOfficial ==
    /\ \A j \in db.papers_jel \cup durable.papers_jel : j.code \in alljel
    /\ \A p \in db.papers :
         Range(CodesOf(db, p.pid)) \subseteq MappedTokens(RawJel(p), alljel)
    /\ \A p \in durable.papers :
         LET m == MappedTokens(RawJel(p), alljel)
         IN  Range(CodesOf(durable, p.pid)) = (IF m = {R00, Z0} THEN {} ELSE m)

\* C7, witness: a durable paper classified "G199, E1": G199 is cut to G19 and
\* replaced by its prefix G1, E1 is dropped
C7_Witness ==
    \E p \in durable.papers :
        /\ RawJel(p) = <<"G", "1", "9", "9", ",", " ", "E", "1">>
        /\ CodesOf(durable, p.pid) = <<G1>>

\* C8: with G1 and G2 official, a paper classified "G1, g-2" gets the codes
\* G1 and G2: the letter, the separator and the digit are collapsed into one
\* code whatever the letter's case.
C8_LowercaseIsCollapsed ==
    \A p \in durable.papers :
        RawJel(p) = <<"G", "1", ",", " ", "g", "-", "2">>
            => CodesOf(durable, p.pid) = <<G1, G2>>

\* C9: the year of a paper row is absent or a value of exactly 4 decimal
\* digits, 0000 excepted, whatever the year, creation-date and revision-date
\* fields hold.
C9_YearHasFourDigits ==
    \A p \in db.papers \cup durable.papers :
        p.year = <<>> \/ (p.year[1] >= 1000 /\ p.year[1] <= 9999)

\* C10: the language of a paper row is absent or exactly two lowercase
\* letters, whether detected or taken from the declared "language" field.
C10_LanguageIsTwoLetters ==
    \A p \in db.papers \cup durable.papers :
        \/ p.language = <<>>
        \/ /\ Len(p.language[1]) = 2
           /\ \A i \in 1..2 : p.language[1][i] \in LowerChars

\* C11: sanitize is idempotent: sanitizing a sanitized value, a text or
\* nothing, gives that value back; no further level of markup or entities is
\* decoded and no kept value becomes nothing.
C11_SanitizeIsIdempotent == san.n = 2 => san.twice = san.once

\* The batch of the run that url is in
BatchOf(u) == CHOOSE j \in 0..NoBatches : u \in Batch(j) \/ j = NoBatches

\* What the worker of url wrote is in the committed tables: its listing's
\* status and error, and a row for the handle of each of its papers
Committed(u) ==
    /\ durable.listings[u] = ListingUpdate(durable, u, w[u].res).listings[u]
    /\ \A k \in 1..Len(w[u].res.papers) :
          \E p \in durable.papers : p.handle = PaperRow(w[u].res.papers[k], u).handle

\* A worker that has started to fetch (and so any that writes)
Started(u) == attempts[u] > 0

\* C12: batches are strictly sequential: while a run is under way, a worker
\* that has started is of the current batch or an earlier one, and by then
\* every worker of every earlier batch has finished and what it wrote is
\* committed.  No order among the workers of one batch is asked for.
C12_BatchesAreSequential ==
    pc \in {"loop", "batch", "raising"} =>
        \A u \in Urls :
            Started(u) =>
                /\ BatchOf(u) < NoBatches
                /\ BatchOf(u) <= batchNo
                /\ BatchOf(u) = batchNo => pc \in {"batch", "raising"}
                /\ \A v \in Urls :
                      (BatchOf(v) < BatchOf(u)) => w[v].st = "done" /\ Committed(v)

\* A worker of the second batch writes, after a first batch of two workers
\* that finished in either order, one of them with papers
C12_Witness ==
    /\ pc = "batch"
    /\ batchNo = 1
    /\ \E u \in Batch(1) : w[u].st = "locked" /\ w[u].k >= 1
    /\ Cardinality(Batch(0)) = BatchSize
    /\ \E v \in Batch(0) : Len(w[v].res.papers) >= 1

\* The tables after the first k writes of the write section of url: the
\* listing's update, then its papers in order
RECURSIVE WritesDone(_, _, _)
WritesDone(tables, u, k) ==
    IF k = 0 THEN tables
    ELSE IF k = 1 THEN ListingUpdate(tables, u, w[u].res)
    ELSE replace_paper(WritesDone(tables, u, k - 1), w[u].res.papers[k - 1], u, alljel)

InWriteSection == {u \in Urls : w[u].st = "locked"}

\* C13: single writer: at most one worker is in the write section, and it is
\* the holder of the lock; from its entry on, the tables are what they were
\* at the entry with this worker's own writes applied in order (its listing,
\* then its papers), so no write of another document falls in between; and
\* while no worker is in the section, workers that fetch, decode and parse
\* leave the tables as the last section left them.
C13_SingleWriter ==
    pc \in {"batch", "raising"} =>
        /\ Cardinality(InWriteSection) <= 1
        /\ \A u \in Urls : (w[u].st = "locked") <=> (lock = u)
        /\ \A u \in InWriteSection : db = WritesDone(base, u, w[u].k)
        /\ InWriteSection = {} => lock = "free" /\ db = base

\* A worker has written its listing and a paper while another, that has
\* fetched its document, waits for the lock
C13_Witness ==
    /\ pc = "batch"
    /\ \E u, v \in Urls :
          /\ u # v
          /\ lock = u
          /\ w[u].k = 2
          /\ db # base
          /\ w[v].st = "loaded"

====
